---- MODULE Spec2Model ----
(***************************************************************************)
(* Total Recall: the branch-state synchronisation engine.                  *)
(*                                                                         *)
(* A model of checkBranchChange / processBranchChange (the per-repository  *)
(* re-entrancy guard, the snapshot of the open tabs under the previous     *)
(* branch, the recency classifier and the tab replay), of the              *)
(* open-surface readers of fileUtils and of the path membership test.      *)
(*                                                                         *)
(* Paths.  An absolute POSIX path is the sequence of its segments: the     *)
(* string is "/" followed by the segments joined with "/".  <<"rA","a1">>  *)
(* is /rA/a1, <<"rA","">> is /rA/ (trailing separator), <<"rA","","x">> is *)
(* /rA//x and <<>> is the root "/".                                        *)
(*                                                                         *)
(* Scheduling.  JavaScript runs one handler at a time; an async function   *)
(* runs synchronously up to its next await.  Every action below is one     *)
(* such synchronous stretch: a change notification (the handler and the    *)
(* synchronous head of the first pass), or the completion of one awaited   *)
(* operation together with the code that follows it up to the next await.  *)
(***************************************************************************)
EXTENDS Integers, Sequences, FiniteSets, TLC

VARIABLES
  head,                 \* repository.state.HEAD?.name per repository ("" when HEAD is undefined)
  currentBranchByRepo,  \* Map<repoKey, branch>: a function on the keys that are set
  processingRepos,      \* Set<repoKey>
  pendingRepos,         \* Set<repoKey>
  store,                \* workspaceState value under STORAGE_KEY: repoKey -> branch -> entry
  tabGroups,            \* vscode.window.tabGroups.all
  activeTabGroup,       \* index of vscode.window.tabGroups.activeTabGroup
  activeTextEditor,     \* vscode.window.activeTextEditor?.document.uri.fsPath (option)
  runs,                 \* per repository, the checkBranchChange invocations in flight
  nNotify,              \* change notifications delivered so far
  nCheckout,            \* branch changes made so far
  history,              \* what the passes of this run have done, per repoKey:
                        \*   left[k][b]  the tabs of the repository when b was last left
                        \*   entered[k]  how the pointer came to its branch
                        \*   via[k]      entered[k] as it was when a branch was last left
  probe                 \* the inputs and results of the functions exercised on their own

vars == <<head, currentBranchByRepo, processingRepos, pendingRepos, store,
          tabGroups, activeTabGroup, activeTextEditor, runs, nNotify, nCheckout,
          history, probe>>

(***************************************************************************)
(* Bounds of the model.                                                    *)
(***************************************************************************)
MaxNotify == 3
MaxCheckout == 2

(***************************************************************************)
(* The world: the repositories the Git extension reports, their roots,     *)
(* branches and files.  A and B lie side by side; S is a repository of its *)
(* own inside A's working tree (a submodule).                              *)
(***************************************************************************)
Repos == {"A", "B", "S"}
rootUri ==
  [r \in Repos |-> IF r = "A" THEN <<"rA">>
                   ELSE IF r = "B" THEN <<"rB">> ELSE <<"rA", "sub">>]
Branches == {"main", "feat"}
NoHead == ""

fA1 == <<"rA", "a1">>
fA2 == <<"rA", "a2">>
fA3 == <<"rA", "a3">>
fB1 == <<"rB", "b1">>
fS1 == <<"rA", "sub", "s1">>

None == <<>>
Some(x) == <<x>>

(***************************************************************************)
(* path.normalize (POSIX) on segment sequences: empty and "." segments are *)
(* dropped, ".." removes the segment before it (and is dropped at the      *)
(* root), and a trailing separator of the input is kept.                   *)
(***************************************************************************)
RECURSIVE normalizeString(_, _)
normalizeString(p, acc) ==
  IF p = <<>> THEN acc
  ELSE LET s == Head(p) IN
       IF s = "" \/ s = "." THEN normalizeString(Tail(p), acc)
       ELSE IF s = ".."
            THEN normalizeString(Tail(p),
                   IF acc = <<>> THEN acc ELSE SubSeq(acc, 1, Len(acc) - 1))
            ELSE normalizeString(Tail(p), Append(acc, s))

pathNormalize(p) ==
  LET core == normalizeString(p, <<>>)
      trailingSeparator == p # <<>> /\ p[Len(p)] = ""
  IN IF core = <<>> THEN <<>>
     ELSE IF trailingSeparator THEN Append(core, "") ELSE core

normalizeRepoKey(repoRoot) == pathNormalize(repoRoot)

\* s.endsWith(path.sep) for a normalized path s
endsWithSep(np) == np = <<>> \/ np[Len(np)] = ""

\* the segments in front of the final separator of a string that ends with one
beforeSep(np) == IF np = <<>> THEN <<>> ELSE SubSeq(np, 1, Len(np) - 1)

\* file.startsWith(s) where s is the string of segments `core` followed by a separator
startsWithSep(np, core) ==
  \/ core = <<>>
  \/ /\ Len(np) > Len(core)
     /\ SubSeq(np, 1, Len(core)) = core

\* a membership test that accepts every path
isFileInRepoAlways(filePath, repoRoot) == TRUE

isFileInRepo(filePath, repoRoot) ==
  LET normalizedFilePath == pathNormalize(filePath)
      normalizedRepoRoot == pathNormalize(repoRoot)
      repoRootWithSep == IF endsWithSep(normalizedRepoRoot)
                         THEN beforeSep(normalizedRepoRoot)
                         ELSE normalizedRepoRoot
  IN \/ startsWithSep(normalizedFilePath, repoRootWithSep)
     \/ normalizedFilePath = normalizedRepoRoot

(***************************************************************************)
(* The editor surface.  A tab is [isText, fsPath] (isText: its input is a  *)
(* TabInputText); a group is [tabs, activeTab] with activeTab an index     *)
(* into tabs, 0 when the group has no active tab.                          *)
(***************************************************************************)
TextTab(p) == [isText |-> TRUE, fsPath |-> p]
OtherTab == [isText |-> FALSE, fsPath |-> <<>>]

\* every tab of the surface, groups in display order, tabs in display order,
\* each with the index of its group
RECURSIVE tabsFrom(_, _)
tabsFrom(groups, g) ==
  IF g > Len(groups) THEN <<>>
  ELSE [i \in 1..Len(groups[g].tabs) |-> [group |-> g, tab |-> groups[g].tabs[i]]]
       \o tabsFrom(groups, g + 1)

allTabs(groups) == tabsFrom(groups, 1)

\* a loop that does not remember the paths it has pushed
RECURSIVE openFilesLoopAll(_, _, _)
openFilesLoopAll(ts, repoRoot, openFiles) ==
  IF ts = <<>> THEN openFiles
  ELSE LET tab == Head(ts).tab
       IN IF tab.isText /\ isFileInRepo(tab.fsPath, repoRoot)
          THEN openFilesLoopAll(Tail(ts), repoRoot, Append(openFiles, tab.fsPath))
          ELSE openFilesLoopAll(Tail(ts), repoRoot, openFiles)

RECURSIVE openFilesLoop(_, _, _)
openFilesLoop(ts, repoRoot, openFiles) ==
  IF ts = <<>> THEN openFiles
  ELSE LET tab == Head(ts).tab
           seen == {openFiles[i] : i \in 1..Len(openFiles)}
       IN IF tab.isText /\ isFileInRepo(tab.fsPath, repoRoot) /\ tab.fsPath \notin seen
          THEN openFilesLoop(Tail(ts), repoRoot, Append(openFiles, tab.fsPath))
          ELSE openFilesLoop(Tail(ts), repoRoot, openFiles)

\* a reader that walks the first tab group only
getOpenFilesFirstGroup(repoRoot) == openFilesLoop(allTabs(<<tabGroups[1]>>), repoRoot, <<>>)

getOpenFilesForRepo(repoRoot) == openFilesLoop(allTabs(tabGroups), repoRoot, <<>>)

\* a tab handle: the group it is in and its path (a group holds a file at most once)
RECURSIVE tabsLoop(_, _)
tabsLoop(ts, repoRoot) ==
  IF ts = <<>> THEN <<>>
  ELSE LET t == Head(ts) IN
       IF t.tab.isText /\ isFileInRepo(t.tab.fsPath, repoRoot)
       THEN <<[group |-> t.group, fsPath |-> t.tab.fsPath]>> \o tabsLoop(Tail(ts), repoRoot)
       ELSE tabsLoop(Tail(ts), repoRoot)

getTabsForRepo(repoRoot) == tabsLoop(allTabs(tabGroups), repoRoot)

\* a reader that returns the active editor's path wherever it lies
getActiveFileAnyRepo(repoRoot) ==
  LET grp == tabGroups[activeTabGroup]
      activeTab == IF grp.activeTab = 0 THEN OtherTab ELSE grp.tabs[grp.activeTab]
  IN IF activeTextEditor # None
     THEN activeTextEditor
     ELSE IF activeTab.isText /\ isFileInRepo(activeTab.fsPath, repoRoot)
          THEN Some(activeTab.fsPath)
          ELSE None

getActiveFileForRepo(repoRoot) ==
  LET grp == tabGroups[activeTabGroup]
      activeTab == IF grp.activeTab = 0 THEN OtherTab ELSE grp.tabs[grp.activeTab]
  IN IF activeTextEditor # None /\ isFileInRepo(activeTextEditor[1], repoRoot)
     THEN activeTextEditor
     ELSE IF activeTab.isText /\ isFileInRepo(activeTab.fsPath, repoRoot)
          THEN Some(activeTab.fsPath)
          ELSE None

(***************************************************************************)
(* The host's editor operations, as the replay uses them.                  *)
(*                                                                         *)
(* tabGroups.close(tabs): every handle's tab leaves its group.  A group    *)
(* whose active tab was closed shows the tab now standing at that place    *)
(* (or its last tab); groups are kept when they become empty.              *)
(* showTextDocument(doc, {preview: false, preserveFocus}): the document    *)
(* is shown in the active group, in its existing tab there or in a new     *)
(* tab at the end, and becomes the active editor.                          *)
(***************************************************************************)
isClosed(tab, g, handles) ==
  /\ tab.isText
  /\ \E i \in 1..Len(handles) : handles[i].group = g /\ handles[i].fsPath = tab.fsPath

closeInGroup(grp, g, handles) ==
  LET kept == SelectSeq(grp.tabs, LAMBDA t : ~isClosed(t, g, handles))
      keptBefore == Cardinality({i \in 1..Len(grp.tabs) :
                       i < grp.activeTab /\ ~isClosed(grp.tabs[i], g, handles)})
      place == IF keptBefore + 1 <= Len(kept) THEN keptBefore + 1 ELSE Len(kept)
  IN [tabs |-> kept,
      activeTab |-> IF grp.activeTab = 0 THEN 0 ELSE place]

closeTabs(handles) ==
  LET groups == [g \in 1..Len(tabGroups) |-> closeInGroup(tabGroups[g], g, handles)]
      grp == groups[activeTabGroup]
      shown == IF grp.activeTab = 0 THEN OtherTab ELSE grp.tabs[grp.activeTab]
      editorClosed == /\ activeTextEditor # None
                      /\ \A i \in 1..Len(grp.tabs) :
                            ~(grp.tabs[i].isText /\ grp.tabs[i].fsPath = activeTextEditor[1])
  IN [tabGroups |-> groups,
      activeTextEditor |-> IF editorClosed
                           THEN (IF shown.isText THEN Some(shown.fsPath) ELSE None)
                           ELSE activeTextEditor]

showTextDocument(file, preserveFocus) ==
  LET grp == tabGroups[activeTabGroup]
      at == {i \in 1..Len(grp.tabs) : grp.tabs[i].isText /\ grp.tabs[i].fsPath = file}
      shownGrp == IF at = {}
                  THEN [tabs |-> Append(grp.tabs, TextTab(file)),
                        activeTab |-> Len(grp.tabs) + 1]
                  ELSE [tabs |-> grp.tabs, activeTab |-> CHOOSE i \in at : TRUE]
  IN [tabGroups |-> [tabGroups EXCEPT ![activeTabGroup] = shownGrp],
      activeTextEditor |-> Some(file)]

(***************************************************************************)
(* The persisted map.  An entry is [legacy, files, activeFile]: legacy     *)
(* marks a bare array of paths (older versions stored one), whose          *)
(* elements are kept in files; activeFile is an option.                    *)
(***************************************************************************)
TabState(files, activeFile) == [legacy |-> FALSE, files |-> files, activeFile |-> activeFile]
LegacyList(files) == [legacy |-> TRUE, files |-> files, activeFile |-> None]

EmptyMap == <<>>
hasKey(m, k) == k \in DOMAIN m
putKey(m, k, v) == (k :> v) @@ m

\* the entries of a persisted map: the pairs (repoKey, branch) it holds
entriesOf(m) == UNION {{<<k, b>> : b \in DOMAIN m[k]} : k \in DOMAIN m}

\* branchFileMapByRepo[repoKey]?.[branch]: the entry, or undefined
hasEntry(m, repoKey, branch) == hasKey(m, repoKey) /\ hasKey(m[repoKey], branch)

\* branchData?.files ?? []   (a bare array has no property `files`)
filesOf(m, repoKey, branch) ==
  IF hasEntry(m, repoKey, branch) /\ ~m[repoKey][branch].legacy
  THEN m[repoKey][branch].files ELSE <<>>

\* branchData?.activeFile ?? null
activeFileOf(m, repoKey, branch) ==
  IF hasEntry(m, repoKey, branch) /\ ~m[repoKey][branch].legacy
  THEN m[repoKey][branch].activeFile ELSE None

\* activeFile ?? filesToOpen[0] ?? null
focusFileOf(activeFile, filesToOpen) ==
  IF activeFile # None THEN activeFile
  ELSE IF filesToOpen # <<>> THEN Some(filesToOpen[1]) ELSE None

\* currentBranchByRepo.get(repoKey) || ''
pointerOf(repoKey) ==
  IF hasKey(currentBranchByRepo, repoKey) THEN currentBranchByRepo[repoKey] ELSE ""

\* repository.state.HEAD?.name || 'HEAD'
liveBranch(r) == IF head[r] = NoHead THEN "HEAD" ELSE head[r]

setCurrentBranch(m, repoRoot, branch) == putKey(m, normalizeRepoKey(repoRoot), branch)

(***************************************************************************)
(* The recency classifier.  The reflog query ends with an error, with      *)
(* output that holds no @{<digits>}, or with a timestamp; age is now       *)
(* minus that timestamp, in seconds.                                       *)
(***************************************************************************)
RecentSeconds == 5

ReflogOutcomes ==
  {[kind |-> "error", age |-> 0], [kind |-> "malformed", age |-> 0]}
  \cup {[kind |-> "ok", age |-> a] : a \in {RecentSeconds, RecentSeconds + 1}}

isRecentlyCreatedOrUpdatedBranch(out) ==
  IF out.kind = "error" THEN FALSE
  ELSE IF out.kind = "malformed" THEN FALSE
  ELSE out.age <= RecentSeconds

(***************************************************************************)
(* One invocation of checkBranchChange in flight: where it is suspended    *)
(* (pc) and the locals of the pass of processBranchChange it is running.   *)
(*   awaitUpdate  await context.workspaceState.update(...)                 *)
(*   awaitRecent  await isRecentlyCreatedOrUpdatedBranch(...)              *)
(*   awaitClose   await vscode.window.tabGroups.close(tabsToClose, false)  *)
(*   awaitOpen    the awaits of the open loop, for filesToOpen[idx]        *)
(*   passDone     processBranchChange has returned; checkBranchChange      *)
(*                resumes at its loop condition                            *)
(*   passFailed   processBranchChange has thrown; checkBranchChange        *)
(*                resumes in its finally block                             *)
(* log is what the pass has done so far, passNo counts the passes of the   *)
(* invocation, absorbed the notifications that arrived during the pass.    *)
(***************************************************************************)
Ev(op, branch, file, tabs, preserveFocus, ok) ==
  [op |-> op, branch |-> branch, file |-> file, tabs |-> tabs,
   preserveFocus |-> preserveFocus, ok |-> ok]

NewRun ==
  [pc |-> "start", newBranch |-> "", currentBranch |-> "", map |-> EmptyMap,
   hist |-> "none", tabsToClose |-> <<>>, filesToOpen |-> <<>>, focusFile |-> None,
   idx |-> 0, log |-> <<>>, passNo |-> 0, absorbed |-> 0]

removeAt(seq, i) == SubSeq(seq, 1, i - 1) \o SubSeq(seq, i + 1, Len(seq))

\* a comparison that never finds the branches equal
sameBranchNever(newBranch, currentBranch) == FALSE

\* newBranch === currentBranch: a redundant notification
sameBranch(newBranch, currentBranch) == newBranch = currentBranch

\* a snapshot that forgets the active file, as the bare-array format did
saveSnapshotNoActive(m, repoKey, currentBranch, openFiles, activeFile) ==
  IF currentBranch # ""
  THEN putKey(m, repoKey, putKey(m[repoKey], currentBranch, TabState(openFiles, None)))
  ELSE m

\* a snapshot that replaces the repository's inner map by a fresh one
saveSnapshotFresh(m, repoKey, currentBranch, openFiles, activeFile) ==
  IF currentBranch # ""
  THEN putKey(m, repoKey, putKey(EmptyMap, currentBranch, TabState(openFiles, activeFile)))
  ELSE m

\* a snapshot written into a map that holds this repository alone
saveSnapshotAlone(m, repoKey, currentBranch, openFiles, activeFile) ==
  IF currentBranch # ""
  THEN putKey(EmptyMap, repoKey,
              putKey(m[repoKey], currentBranch, TabState(openFiles, activeFile)))
  ELSE m

\* a snapshot that is stored whether a branch is being left or not
saveSnapshotUnguarded(m, repoKey, currentBranch, openFiles, activeFile) ==
  putKey(m, repoKey, putKey(m[repoKey], currentBranch, TabState(openFiles, activeFile)))

\* a snapshot written into a map whose other repositories start afresh
saveSnapshotOthersReset(m, repoKey, currentBranch, openFiles, activeFile) ==
  IF currentBranch # ""
  THEN [k \in DOMAIN m |->
          IF k = repoKey
          THEN putKey(m[repoKey], currentBranch, TabState(openFiles, activeFile))
          ELSE EmptyMap]
  ELSE m

\* if (currentBranch) { branchFileMapByRepo[repoKey][currentBranch] = {...} }
saveSnapshot(m, repoKey, currentBranch, openFiles, activeFile) ==
  IF currentBranch # ""
  THEN putKey(m, repoKey, putKey(m[repoKey], currentBranch, TabState(openFiles, activeFile)))
  ELSE m

\* processBranchChange from its entry to its first await (or its early return):
\* the run as it is then, and the value of the persisted map
processBranchChange(r, f) ==
  LET repoKey == normalizeRepoKey(rootUri[r])
      newBranch == liveBranch(r)
      currentBranch == pointerOf(repoKey)
      pass == [NewRun EXCEPT !.passNo = f.passNo + 1, !.newBranch = newBranch,
                             !.currentBranch = currentBranch]
      openFiles == getOpenFilesForRepo(rootUri[r])
      branchFileMapByRepo == store
      withRepo == IF hasKey(branchFileMapByRepo, repoKey)
                  THEN branchFileMapByRepo
                  ELSE putKey(branchFileMapByRepo, repoKey, EmptyMap)
      saved == saveSnapshot(withRepo, repoKey, currentBranch, openFiles,
                            getActiveFileForRepo(rootUri[r]))
  IN IF sameBranch(newBranch, currentBranch)
     THEN [run |-> [pass EXCEPT !.pc = "passDone"], store |-> store]
     ELSE [run |-> [pass EXCEPT !.pc = "awaitUpdate", !.map = saved,
                      !.log = <<Ev("update", currentBranch, <<>>, <<>>, FALSE, TRUE)>>],
           store |-> saved]

NoHistory == [left |-> EmptyMap, entered |-> EmptyMap, via |-> EmptyMap]

\* the history once a pass has started: what it stored under the branch it
\* leaves, and how that branch had been entered
historyAtStart(repoKey, started) ==
  LET currentBranch == started.run.currentBranch IN
  IF started.run.pc = "awaitUpdate" /\ currentBranch # ""
  THEN [history EXCEPT
          !.left = putKey(@, repoKey,
                          putKey(IF hasKey(@, repoKey) THEN @[repoKey] ELSE EmptyMap,
                                 currentBranch, started.store[repoKey][currentBranch])),
          !.via = putKey(@, repoKey,
                         IF hasKey(history.entered, repoKey)
                         THEN history.entered[repoKey] ELSE "start")]
  ELSE history

\* a guard that never sees a pass in flight
isProcessingNever(repoKey) == FALSE

\* one guard for all repositories: busy while any pass is in flight
isProcessingAny(repoKey) == processingRepos # {}

\* processingRepos.has(repoKey)
isProcessing(repoKey) == repoKey \in processingRepos

\* pendingRepos.delete(repoKey) at the head of the loop body
pendingDeleted(repoKey) == pendingRepos \ {repoKey}

\* a finally block that leaves the processing mark in place
processingKept(repoKey) == processingRepos

\* processingRepos.delete(repoKey) in the finally block
processingDeleted(repoKey) == processingRepos \ {repoKey}

(***************************************************************************)
(* A change notification for r: the onDidChange listener calls             *)
(* checkBranchChange, which runs up to its first await.                    *)
(***************************************************************************)
checkBranchChange(r) ==
  LET repoKey == normalizeRepoKey(rootUri[r]) IN
  /\ nNotify' = nNotify + 1
  /\ \/ /\ isProcessing(repoKey)
        /\ pendingRepos' = pendingRepos \cup {repoKey}
        /\ runs' = [runs EXCEPT ![r] =
                      [i \in 1..Len(runs[r]) |->
                         [runs[r][i] EXCEPT !.absorbed = @ + 1]]]
        /\ UNCHANGED <<processingRepos, store, currentBranchByRepo, history>>
     \/ /\ ~isProcessing(repoKey)
        /\ processingRepos' = processingRepos \cup {repoKey}
        /\ pendingRepos' = pendingDeleted(repoKey)
        /\ LET started == processBranchChange(r, NewRun) IN
             /\ runs' = [runs EXCEPT ![r] = Append(@, started.run)]
             /\ store' = started.store
             /\ history' = historyAtStart(repoKey, started)
        /\ UNCHANGED currentBranchByRepo
  /\ UNCHANGED <<head, tabGroups, activeTabGroup, activeTextEditor, nCheckout, probe>>

(***************************************************************************)
(* workspaceState.update settles; when it resolves the classifier's        *)
(* reflog query is started, when it rejects processBranchChange throws.    *)
(***************************************************************************)
UpdateDone(r, i, ok) ==
  LET f == runs[r][i] IN
  /\ f.pc = "awaitUpdate"
  /\ runs' = [runs EXCEPT ![r][i].pc = IF ok THEN "awaitRecent" ELSE "passFailed"]
  /\ UNCHANGED <<head, currentBranchByRepo, processingRepos, pendingRepos, store,
                 tabGroups, activeTabGroup, activeTextEditor, nNotify, nCheckout,
                 history, probe>>

\* the restore part of the pass, from reading branchData to the first open
restoreFiles(r, f) ==
  LET repoKey == normalizeRepoKey(rootUri[r])
      filesToOpen == filesOf(f.map, repoKey, f.newBranch)
      activeFile == activeFileOf(f.map, repoKey, f.newBranch)
      focusFile == focusFileOf(activeFile, filesToOpen)
  IN [f EXCEPT !.filesToOpen = filesToOpen, !.focusFile = focusFile,
               !.idx = IF filesToOpen = <<>> THEN 0 ELSE 1,
               !.pc = IF filesToOpen = <<>> THEN "setBranch" ELSE "awaitOpen"]

\* currentBranchByRepo.set(repoKey, newBranch), the last statement of a pass
settle(f) ==
  IF f.pc = "setBranch"
  THEN [f EXCEPT !.pc = "passDone",
                 !.log = Append(@, Ev("setBranch", f.newBranch, <<>>, <<>>, FALSE, TRUE))]
  ELSE f

\* a pointer that is moved as soon as the classifier has answered
pointerAfterEarly(r, f) ==
  putKey(currentBranchByRepo, normalizeRepoKey(rootUri[r]), f.newBranch)

pointerAfter(r, f) ==
  IF f.pc = "setBranch"
  THEN putKey(currentBranchByRepo, normalizeRepoKey(rootUri[r]), f.newBranch)
  ELSE currentBranchByRepo

\* the history once a pass has set the pointer: "replay" when the classifier
\* read a reflog entry that was not recent and every close and open of the
\* pass succeeded, "other" when not
historyAtEnd(r, f) ==
  LET fullReplay ==
        /\ f.hist = "ok"
        /\ \E n \in 1..Len(f.log) : f.log[n].op = "classify" /\ ~f.log[n].ok
        /\ \A n \in 1..Len(f.log) : f.log[n].op \in {"close", "open"} => f.log[n].ok
  IN IF f.pc = "setBranch"
     THEN [history EXCEPT !.entered = putKey(@, normalizeRepoKey(rootUri[r]),
                                             IF fullReplay THEN "replay" ELSE "other")]
     ELSE history

\* a gate that replays whatever the classifier answered
afterClassifierAlways(r, f, isOldBranch) ==
  LET tabsToClose == getTabsForRepo(rootUri[r]) IN
  IF Len(tabsToClose) > 0
  THEN [f EXCEPT !.pc = "awaitClose", !.tabsToClose = tabsToClose]
  ELSE restoreFiles(r, f)

\* a replay that calls close whether the repository has open tabs or not
afterClassifierCloseAlways(r, f, isOldBranch) ==
  LET tabsToClose == getTabsForRepo(rootUri[r]) IN
  IF isOldBranch
  THEN [f EXCEPT !.pc = "awaitClose", !.tabsToClose = tabsToClose]
  ELSE [f EXCEPT !.pc = "setBranch"]

\* a replay that leaves the tabs open when nothing is saved for the new branch
afterClassifierKeepTabs(r, f, isOldBranch) ==
  LET tabsToClose == getTabsForRepo(rootUri[r])
      repoKey == normalizeRepoKey(rootUri[r])
  IN IF isOldBranch
     THEN IF Len(tabsToClose) > 0 /\ hasEntry(f.map, repoKey, f.newBranch)
          THEN [f EXCEPT !.pc = "awaitClose", !.tabsToClose = tabsToClose]
          ELSE restoreFiles(r, f)
     ELSE [f EXCEPT !.pc = "setBranch"]

\* if (isOldBranch) { ... }: what follows the classifier's answer
afterClassifier(r, f, isOldBranch) ==
  LET tabsToClose == getTabsForRepo(rootUri[r]) IN
  IF isOldBranch
  THEN IF Len(tabsToClose) > 0
       THEN [f EXCEPT !.pc = "awaitClose", !.tabsToClose = tabsToClose]
       ELSE restoreFiles(r, f)
  ELSE [f EXCEPT !.pc = "setBranch"]

(***************************************************************************)
(* The reflog query ends with outcome out.                                 *)
(***************************************************************************)
ClassifierDone(r, i, out) ==
  LET f == runs[r][i]
      recent == isRecentlyCreatedOrUpdatedBranch(out)
      isOldBranch == ~recent
      asked == [f EXCEPT !.hist = out.kind,
                  !.log = Append(@, Ev("classify", f.newBranch, <<>>, <<>>, FALSE, recent))]
      g == afterClassifier(r, asked, isOldBranch)
  IN /\ f.pc = "awaitRecent"
     /\ runs' = [runs EXCEPT ![r][i] = settle(g)]
     /\ currentBranchByRepo' = pointerAfter(r, g)
     /\ history' = historyAtEnd(r, g)
     /\ UNCHANGED <<head, processingRepos, pendingRepos, store, tabGroups,
                    activeTabGroup, activeTextEditor, nNotify, nCheckout, probe>>

\* a close whose failure is not caught: the pass throws
afterCloseThrows(r, f, ok) ==
  IF ok THEN restoreFiles(r, f) ELSE [f EXCEPT !.pc = "passFailed"]

\* the catch around tabGroups.close: a failure is logged and the pass goes on
afterClose(r, f, ok) == restoreFiles(r, f)

(***************************************************************************)
(* tabGroups.close settles.                                                *)
(***************************************************************************)
CloseDone(r, i, ok) ==
  LET f == runs[r][i]
      closed == [f EXCEPT !.log = Append(@, Ev("close", "", <<>>, f.tabsToClose, FALSE, ok))]
      g == afterClose(r, closed, ok)
      surface == closeTabs(f.tabsToClose)
  IN /\ f.pc = "awaitClose"
     /\ tabGroups' = IF ok THEN surface.tabGroups ELSE tabGroups
     /\ activeTextEditor' = IF ok THEN surface.activeTextEditor ELSE activeTextEditor
     /\ runs' = [runs EXCEPT ![r][i] = settle(g)]
     /\ currentBranchByRepo' = pointerAfter(r, g)
     /\ history' = historyAtEnd(r, g)
     /\ UNCHANGED <<head, processingRepos, pendingRepos, store, activeTabGroup,
                    nNotify, nCheckout, probe>>

\* an open whose failure is not caught: the pass throws
afterOpenThrows(f, ok) ==
  IF ~ok THEN [f EXCEPT !.pc = "passFailed"]
  ELSE IF f.idx < Len(f.filesToOpen)
       THEN [f EXCEPT !.idx = @ + 1]
       ELSE [f EXCEPT !.pc = "setBranch"]

\* the catch inside the open loop: the loop goes on with the next file
afterOpen(f, ok) ==
  IF f.idx < Len(f.filesToOpen)
  THEN [f EXCEPT !.idx = @ + 1]
  ELSE [f EXCEPT !.pc = "setBranch"]

(***************************************************************************)
(* openTextDocument / showTextDocument for filesToOpen[idx] settle: ok,    *)
(* or one of the two has thrown.                                           *)
(***************************************************************************)
OpenDone(r, i, ok) ==
  LET f == runs[r][i]
      file == f.filesToOpen[f.idx]
      isFocusFile == Some(file) = f.focusFile
      opened == [f EXCEPT !.log = Append(@, Ev("open", "", file, <<>>, ~isFocusFile, ok))]
      g == afterOpen(opened, ok)
      surface == showTextDocument(file, ~isFocusFile)
  IN /\ f.pc = "awaitOpen"
     /\ tabGroups' = IF ok THEN surface.tabGroups ELSE tabGroups
     /\ activeTextEditor' = IF ok THEN surface.activeTextEditor ELSE activeTextEditor
     /\ runs' = [runs EXCEPT ![r][i] = settle(g)]
     /\ currentBranchByRepo' = pointerAfter(r, g)
     /\ history' = historyAtEnd(r, g)
     /\ UNCHANGED <<head, processingRepos, pendingRepos, store, activeTabGroup,
                    nNotify, nCheckout, probe>>

(***************************************************************************)
(* checkBranchChange resumes after a pass: the loop condition and then     *)
(* either the next pass or the finally block; after a pass that threw,     *)
(* the finally block alone.                                                *)
(***************************************************************************)
Resume(r, i) ==
  LET f == runs[r][i]
      repoKey == normalizeRepoKey(rootUri[r])
  IN /\ f.pc \in {"passDone", "passFailed"}
     /\ \/ /\ f.pc = "passDone"
           /\ repoKey \in pendingRepos
           /\ pendingRepos' = pendingDeleted(repoKey)
           /\ LET started == processBranchChange(r, f) IN
                /\ runs' = [runs EXCEPT ![r][i] = started.run]
                /\ store' = started.store
                /\ history' = historyAtStart(repoKey, started)
           /\ UNCHANGED processingRepos
        \/ /\ f.pc = "passDone"
           /\ repoKey \notin pendingRepos
           /\ processingRepos' = processingDeleted(repoKey)
           /\ runs' = [runs EXCEPT ![r] = removeAt(@, i)]
           /\ UNCHANGED <<pendingRepos, store, history>>
        \/ /\ f.pc = "passFailed"
           /\ processingRepos' = processingDeleted(repoKey)
           /\ runs' = [runs EXCEPT ![r] = removeAt(@, i)]
           /\ UNCHANGED <<pendingRepos, store, history>>
     /\ UNCHANGED <<head, currentBranchByRepo, tabGroups, activeTabGroup,
                    activeTextEditor, nNotify, nCheckout, probe>>

(***************************************************************************)
(* The user checks out another branch of r, or detaches HEAD.              *)
(***************************************************************************)
Checkout(r, b) ==
  /\ b # head[r]
  /\ head' = [head EXCEPT ![r] = b]
  /\ nCheckout' = nCheckout + 1
  /\ UNCHANGED <<currentBranchByRepo, processingRepos, pendingRepos, store, tabGroups,
                 activeTabGroup, activeTextEditor, runs, nNotify, history, probe>>

(***************************************************************************)
(* Initial states: every repository on main, its pointer set by            *)
(* setCurrentBranch or not yet; a persisted map left by an earlier         *)
(* session (of this version, or of one that stored bare arrays) or none;   *)
(* one of three tab arrangements.                                          *)
(***************************************************************************)
InitStores ==
  { EmptyMap,
    putKey(putKey(EmptyMap, <<"rA">>,
                  putKey(EmptyMap, "feat", TabState(<<fA2, fA1>>, Some(fA1)))),
           <<"rB">>, putKey(EmptyMap, "feat", TabState(<<fB1>>, None))),
    putKey(putKey(EmptyMap, <<"rA">>,
                  putKey(EmptyMap, "feat", LegacyList(<<fA1, fA2>>))),
           <<"rB">>, putKey(EmptyMap, "feat", TabState(<<fB1>>, None))) }

InitSurfaces ==
  { [tabGroups |-> <<[tabs |-> <<TextTab(fA1), TextTab(fA2), TextTab(fB1)>>, activeTab |-> 1]>>,
     activeTabGroup |-> 1, activeTextEditor |-> Some(fA1)],
    [tabGroups |-> <<[tabs |-> <<TextTab(fA1), OtherTab>>, activeTab |-> 2],
                     [tabs |-> <<TextTab(fB1), TextTab(fA1)>>, activeTab |-> 2]>>,
     activeTabGroup |-> 2, activeTextEditor |-> None],
    [tabGroups |-> <<[tabs |-> <<TextTab(fS1), TextTab(fB1)>>, activeTab |-> 2]>>,
     activeTabGroup |-> 1, activeTextEditor |-> Some(fB1)] }

\* the value of probe while no function is exercised on its own
NoProbe == <<>>

\* the repositories that receive notifications and branch changes under Spec;
\* the tabs and the stored entries of the others are there and stay untouched
Watched == {"A"}

RECURSIVE initPointers(_, _)
initPointers(rs, m) ==
  IF rs = {} THEN m
  ELSE LET r == CHOOSE x \in rs : TRUE
       IN initPointers(rs \ {r}, setCurrentBranch(m, rootUri[r], "main"))

Init ==
  /\ head = [r \in Repos |-> "main"]
  /\ \E known \in SUBSET Watched :
       currentBranchByRepo = initPointers(known \cup (Repos \ Watched), EmptyMap)
  /\ processingRepos = {}
  /\ pendingRepos = {}
  /\ store \in InitStores
  /\ \E s \in InitSurfaces :
       /\ tabGroups = s.tabGroups
       /\ activeTabGroup = s.activeTabGroup
       /\ activeTextEditor = s.activeTextEditor
  /\ runs = [r \in Repos |-> <<>>]
  /\ nNotify = 0
  /\ nCheckout = 0
  /\ history = NoHistory
  /\ probe = NoProbe

Next ==
  \/ \E r \in Watched : nNotify < MaxNotify /\ checkBranchChange(r)
  \/ \E r \in Watched : \E i \in 1..Len(runs[r]) : \E ok \in BOOLEAN : UpdateDone(r, i, ok)
  \/ \E r \in Watched : \E i \in 1..Len(runs[r]) : \E out \in ReflogOutcomes : ClassifierDone(r, i, out)
  \/ \E r \in Watched : \E i \in 1..Len(runs[r]) : \E ok \in BOOLEAN : CloseDone(r, i, ok)
  \/ \E r \in Watched : \E i \in 1..Len(runs[r]) : \E ok \in BOOLEAN : OpenDone(r, i, ok)
  \/ \E r \in Watched : \E i \in 1..Len(runs[r]) : Resume(r, i)
  \/ \E r \in Watched : \E b \in Branches \cup {NoHead} :
        nCheckout < MaxCheckout /\ Checkout(r, b)

Spec == Init /\ [][Next]_vars

(***************************************************************************)
(* Notifications that follow the changes: the live branch of a watched     *)
(* repository changes only before the first notification is delivered, so  *)
(* that from the first notification on every change has been followed by   *)
(* a notification.                                                         *)
(***************************************************************************)
NextFollowed ==
  \/ \E r \in Watched : nNotify < MaxNotify /\ checkBranchChange(r)
  \/ \E r \in Watched : \E i \in 1..Len(runs[r]) : \E ok \in BOOLEAN : UpdateDone(r, i, ok)
  \/ \E r \in Watched : \E i \in 1..Len(runs[r]) : \E out \in ReflogOutcomes :
        ClassifierDone(r, i, out)
  \/ \E r \in Watched : \E i \in 1..Len(runs[r]) : \E ok \in BOOLEAN : CloseDone(r, i, ok)
  \/ \E r \in Watched : \E i \in 1..Len(runs[r]) : \E ok \in BOOLEAN : OpenDone(r, i, ok)
  \/ \E r \in Watched : \E i \in 1..Len(runs[r]) : Resume(r, i)
  \/ \E r \in Watched : \E b \in Branches \cup {NoHead} :
        nNotify = 0 /\ nCheckout < MaxCheckout /\ Checkout(r, b)

SpecFollowed == Init /\ [][NextFollowed]_vars

(***************************************************************************)
(* Two repositories side by side, both watched: their passes interleave    *)
(* at every await.  Both start on main with their pointers set, with a     *)
(* persisted map in the current format that holds entries of both, and     *)
(* with no tab of the nested repository open.                              *)
(***************************************************************************)
MaxNotifyTwo == 2
MaxCheckoutTwo == 2

WatchedTwo == {"A", "B"}

InitStoresTwo ==
  {m \in InitStores : /\ \A r \in WatchedTwo : hasKey(m, normalizeRepoKey(rootUri[r]))
                       /\ \A e \in entriesOf(m) : ~m[e[1]][e[2]].legacy}

InitSurfacesTwo ==
  {s \in InitSurfaces :
     \A n \in 1..Len(allTabs(s.tabGroups)) :
        ~isFileInRepo(allTabs(s.tabGroups)[n].tab.fsPath, rootUri["S"])}

InitTwo ==
  /\ head = [r \in Repos |-> "main"]
  /\ currentBranchByRepo = initPointers(Repos, EmptyMap)
  /\ processingRepos = {}
  /\ pendingRepos = {}
  /\ store \in InitStoresTwo
  /\ \E s \in InitSurfacesTwo :
       /\ tabGroups = s.tabGroups
       /\ activeTabGroup = s.activeTabGroup
       /\ activeTextEditor = s.activeTextEditor
  /\ runs = [r \in Repos |-> <<>>]
  /\ nNotify = 0
  /\ nCheckout = 0
  /\ history = NoHistory
  /\ probe = NoProbe

NextTwo ==
  \/ \E r \in WatchedTwo : nNotify < MaxNotifyTwo /\ checkBranchChange(r)
  \/ \E r \in WatchedTwo : \E i \in 1..Len(runs[r]) : \E ok \in BOOLEAN : UpdateDone(r, i, ok)
  \/ \E r \in WatchedTwo : \E i \in 1..Len(runs[r]) : \E out \in ReflogOutcomes :
        ClassifierDone(r, i, out)
  \/ \E r \in WatchedTwo : \E i \in 1..Len(runs[r]) : \E ok \in BOOLEAN : CloseDone(r, i, ok)
  \/ \E r \in WatchedTwo : \E i \in 1..Len(runs[r]) : \E ok \in BOOLEAN : OpenDone(r, i, ok)
  \/ \E r \in WatchedTwo : \E i \in 1..Len(runs[r]) : Resume(r, i)
  \/ \E r \in WatchedTwo : \E b \in Branches :
        nCheckout < MaxCheckoutTwo /\ Checkout(r, b)

SpecTwo == InitTwo /\ [][NextTwo]_vars

(***************************************************************************)
(* The variables of the engine at rest, for the specifications that        *)
(* exercise one function on its own.                                       *)
(***************************************************************************)
AtRest ==
  /\ head = [r \in Repos |-> "main"]
  /\ currentBranchByRepo = initPointers(Repos, EmptyMap)
  /\ processingRepos = {}
  /\ pendingRepos = {}
  /\ store = EmptyMap
  /\ tabGroups = <<[tabs |-> <<>>, activeTab |-> 0]>>
  /\ activeTabGroup = 1
  /\ activeTextEditor = None
  /\ runs = [r \in Repos |-> <<>>]
  /\ nNotify = 0
  /\ nCheckout = 0
  /\ history = NoHistory

engine == <<head, currentBranchByRepo, processingRepos, pendingRepos, store,
            tabGroups, activeTabGroup, activeTextEditor, runs, nNotify, nCheckout,
            history>>

(***************************************************************************)
(* The replay under the setting totalRecall.restoreBehavior.  The open     *)
(* calls of one replay of the saved state {files, activeFile}: each is     *)
(* showTextDocument(doc, {preview: false, preserveFocus}).                 *)
(*   preserveTabOrder     every file in saved order in the background,     *)
(*                        then the focus file once more, focused           *)
(*   focusActiveTabFirst  the focus file first, focused, then the other    *)
(*                        files in saved order in the background           *)
(***************************************************************************)
MaxFiles == 3

RestoreBehaviors == {"preserveTabOrder", "focusActiveTabFirst"}

OpenCall(file, preserveFocus) == [file |-> file, preserveFocus |-> preserveFocus]

inBackground(files) == [i \in 1..Len(files) |-> OpenCall(files[i], TRUE)]

\* the open loop without the setting: every file once, in saved order, the
\* focus file focused where it stands
openCallsInPlace(restoreBehavior, files, activeFile) ==
  [i \in 1..Len(files) |->
     OpenCall(files[i], Some(files[i]) # focusFileOf(activeFile, files))]

\* the focus-first replay that looks at activeFile alone
openCallsActiveOnly(restoreBehavior, files, activeFile) ==
  IF restoreBehavior = "preserveTabOrder"
  THEN inBackground(files)
       \o (IF focusFileOf(activeFile, files) # None
           THEN <<OpenCall(focusFileOf(activeFile, files)[1], FALSE)>> ELSE <<>>)
  ELSE (IF activeFile # None THEN <<OpenCall(activeFile[1], FALSE)>> ELSE <<>>)
       \o inBackground(SelectSeq(files, LAMBDA file : Some(file) # activeFile))

openCalls(restoreBehavior, files, activeFile) ==
  LET focusFile == focusFileOf(activeFile, files)
      focused == IF focusFile # None THEN <<OpenCall(focusFile[1], FALSE)>> ELSE <<>>
  IN IF restoreBehavior = "preserveTabOrder"
     THEN inBackground(files) \o focused
     ELSE focused \o inBackground(SelectSeq(files, LAMBDA file : Some(file) # focusFile))

\* the saved lists: no path twice, at most MaxFiles paths
ReplayPaths == {fA1, fA2, fA3}

RECURSIVE savedLists(_)
savedLists(n) ==
  IF n = 0 THEN {<<>>}
  ELSE savedLists(n - 1)
       \cup {Append(l, file) : l \in {x \in savedLists(n - 1) : Len(x) = n - 1},
                               file \in ReplayPaths}

SavedStates ==
  {[files |-> l, activeFile |-> a] :
     l \in {x \in savedLists(MaxFiles) :
              \A i, j \in 1..Len(x) : x[i] = x[j] => i = j},
     a \in {None} \cup {Some(file) : file \in ReplayPaths}}

InitReplay ==
  /\ AtRest
  /\ \E restoreBehavior \in RestoreBehaviors : \E saved \in SavedStates :
       probe = [restoreBehavior |-> restoreBehavior, files |-> saved.files,
                activeFile |-> saved.activeFile, calls |-> <<>>,
                done |-> openCalls(restoreBehavior, saved.files, saved.activeFile) = <<>>]

\* the next open call of the replay is made and settles (ok, or it has thrown
\* and the failure is caught)
ReplayOpen(ok) ==
  LET plan == openCalls(probe.restoreBehavior, probe.files, probe.activeFile)
      n == Len(probe.calls) + 1
  IN /\ ~probe.done
     /\ probe' = [probe EXCEPT !.calls = Append(@, [file |-> plan[n].file,
                                                    preserveFocus |-> plan[n].preserveFocus,
                                                    ok |-> ok]),
                               !.done = (n = Len(plan))]
     /\ UNCHANGED engine

NextReplay == \E ok \in BOOLEAN : ReplayOpen(ok)

SpecReplay == InitReplay /\ [][NextReplay]_vars

(***************************************************************************)
(* The path functions on their own: isFileInRepo and normalizeRepoKey      *)
(* applied to raw paths, every sequence of up to MaxPathLen (for a root,   *)
(* MaxRootLen) segments, empty segments (duplicate or trailing separators) *)
(* and ".." among them.                                                    *)
(***************************************************************************)
MaxPathLen == 3
MaxRootLen == 2

Segments == {"rA", "rAx", "a1", "", ".."}

RECURSIVE rawPaths(_)
rawPaths(n) ==
  IF n = 0 THEN {<<>>}
  ELSE rawPaths(n - 1)
       \cup {Append(p, seg) : p \in {x \in rawPaths(n - 1) : Len(x) = n - 1},
                              seg \in Segments}

RawPaths == rawPaths(MaxPathLen)
RawRoots == rawPaths(MaxRootLen)

InitPath ==
  /\ AtRest
  /\ \E filePath \in RawPaths : \E repoRoot \in RawRoots :
       probe = [filePath |-> filePath, repoRoot |-> repoRoot,
                result |-> None, key |-> None]

\* isFileInRepo(filePath, repoRoot) is called
ApplyIsFileInRepo ==
  /\ probe.result = None
  /\ probe' = [probe EXCEPT !.result = Some(isFileInRepo(probe.filePath, probe.repoRoot))]
  /\ UNCHANGED engine

\* normalizeRepoKey(repoRoot) is called
ApplyNormalizeRepoKey ==
  /\ probe.key = None
  /\ probe' = [probe EXCEPT !.key = Some(normalizeRepoKey(probe.repoRoot))]
  /\ UNCHANGED engine

NextPath ==
  \/ ApplyIsFileInRepo
  \/ ApplyNormalizeRepoKey

SpecPath == InitPath /\ [][NextPath]_vars

(***************************************************************************)
(* The pass over every saved state.  /rA has been switched from main to    *)
(* feat and the notification is still to come; the persisted map holds     *)
(* under (/rA, feat) any state {files, activeFile} of SavedStates.  An     *)
(* activeFile that is not in files is what a pass stores when the focused  *)
(* editor shows a file of the repository in a tab that is no text tab (a   *)
(* diff editor): getActiveFileForRepo returns the editor's path and        *)
(* getOpenFilesForRepo skips the tab.                                      *)
(***************************************************************************)
MaxNotifySaved == 1

InitStoresSaved ==
  {putKey(EmptyMap, normalizeRepoKey(rootUri["A"]),
          putKey(EmptyMap, "feat", TabState(saved.files, saved.activeFile))) :
     saved \in SavedStates}

InitSaved ==
  /\ head = [r \in Repos |-> IF r = "A" THEN "feat" ELSE "main"]
  /\ currentBranchByRepo = initPointers(Repos, EmptyMap)
  /\ processingRepos = {}
  /\ pendingRepos = {}
  /\ store \in InitStoresSaved
  /\ \E s \in InitSurfacesTwo :
       /\ tabGroups = s.tabGroups
       /\ activeTabGroup = s.activeTabGroup
       /\ activeTextEditor = s.activeTextEditor
  /\ runs = [r \in Repos |-> <<>>]
  /\ nNotify = 0
  /\ nCheckout = 0
  /\ history = NoHistory
  /\ probe = NoProbe

NextSaved ==
  \/ \E r \in Watched : nNotify < MaxNotifySaved /\ checkBranchChange(r)
  \/ \E r \in Watched : \E i \in 1..Len(runs[r]) : \E ok \in BOOLEAN : UpdateDone(r, i, ok)
  \/ \E r \in Watched : \E i \in 1..Len(runs[r]) : \E out \in ReflogOutcomes :
        ClassifierDone(r, i, out)
  \/ \E r \in Watched : \E i \in 1..Len(runs[r]) : \E ok \in BOOLEAN : CloseDone(r, i, ok)
  \/ \E r \in Watched : \E i \in 1..Len(runs[r]) : \E ok \in BOOLEAN : OpenDone(r, i, ok)
  \/ \E r \in Watched : \E i \in 1..Len(runs[r]) : Resume(r, i)

SpecSaved == InitSaved /\ [][NextSaved]_vars

(***************************************************************************)
(* The readers of the editor surface on their own: getOpenFilesForRepo and *)
(* getActiveFileForRepo are applied to every arrangement of up to MaxTabs  *)
(* tabs in two tab groups.  A group shows a file at most once, a group     *)
(* with tabs has an active tab, and the active text editor is any document *)
(* or none (a focused diff editor is no text tab).                         *)
(***************************************************************************)
MaxTabs == 3

SurfaceTabs == {TextTab(fA1), TextTab(fA2), TextTab(fB1), OtherTab}
SurfaceRoots == {rootUri["A"], rootUri["B"]}

RECURSIVE tabRows(_)
tabRows(n) ==
  IF n = 0 THEN {<<>>}
  ELSE tabRows(n - 1) \cup
       {Append(row, t) : row \in {x \in tabRows(n - 1) : Len(x) = n - 1}, t \in SurfaceTabs}

\* a group's tab bar: no file twice
isTabBar(row) ==
  \A i \in 1..Len(row) : \A j \in 1..Len(row) :
     (i # j /\ row[i].isText) => row[i] # row[j]

activeTabs(row) == IF row = <<>> THEN {0} ELSE 1..Len(row)

InitSurface ==
  /\ head = [r \in Repos |-> "main"]
  /\ currentBranchByRepo = initPointers(Repos, EmptyMap)
  /\ processingRepos = {}
  /\ pendingRepos = {}
  /\ store = EmptyMap
  /\ \E row \in tabRows(MaxTabs) : \E cut \in 0..Len(row) :
       LET left == SubSeq(row, 1, cut)
           right == SubSeq(row, cut + 1, Len(row))
       IN /\ isTabBar(left) /\ isTabBar(right)
          /\ \E a1 \in activeTabs(left) : \E a2 \in activeTabs(right) :
               tabGroups = <<[tabs |-> left, activeTab |-> a1],
                             [tabs |-> right, activeTab |-> a2]>>
  /\ activeTabGroup \in {1, 2}
  /\ activeTextEditor \in {None, Some(fA1), Some(fA2), Some(fB1)}
  /\ runs = [r \in Repos |-> <<>>]
  /\ nNotify = 0
  /\ nCheckout = 0
  /\ history = NoHistory
  /\ \E repoRoot \in SurfaceRoots :
       probe = [repoRoot |-> repoRoot, done |-> FALSE, openFiles |-> <<>>, activeFile |-> None]

\* the surface is read for repoRoot, as a pass does before it stores a snapshot
ReadSurface ==
  /\ ~probe.done
  /\ probe' = [probe EXCEPT !.done = TRUE,
                            !.openFiles = getOpenFilesForRepo(probe.repoRoot),
                            !.activeFile = getActiveFileForRepo(probe.repoRoot)]
  /\ UNCHANGED engine

NextSurface == ReadSurface

SpecSurface == InitSurface /\ [][NextSurface]_vars

(***************************************************************************)
(* Vocabulary of the properties.                                           *)
(***************************************************************************)
keyOf(r) == normalizeRepoKey(rootUri[r])
Runs == {<<r, i>> \in Repos \X (1..MaxNotify + 1) : i <= Len(runs[r])}
InPass == {"awaitUpdate", "awaitRecent", "awaitClose", "awaitOpen"}
Returned == {"passDone", "passFailed"}

did(f, op) == SelectSeq(f.log, LAMBDA e : e.op = op)
has(f, op) == did(f, op) # <<>>
openedFiles(f) == [n \in 1..Len(did(f, "open")) |-> did(f, "open")[n].file]
reportedRecent(f) == has(f, "classify") /\ did(f, "classify")[1].ok

\* in the step, the invocation i of r starts a pass (its first or a further one)
startsPass(r, i) ==
  /\ i <= Len(runs'[r])
  /\ \/ i > Len(runs[r])
     \/ i <= Len(runs[r]) /\ Len(runs'[r]) = Len(runs[r])
        /\ runs'[r][i].passNo = runs[r][i].passNo + 1

\* in the step, the invocation i of r resumes after a pass has ended
resumes(r, i) ==
  /\ i <= Len(runs[r])
  /\ runs[r][i].pc \in Returned
  /\ \/ Len(runs'[r]) < Len(runs[r])
     \/ Len(runs'[r]) = Len(runs[r]) /\ runs'[r][i].passNo # runs[r][i].passNo

\* C1: for every repository key at most one pass of processBranchChange is in
\* flight at any time
C1_OnePassInFlight ==
  \A r \in Repos :
    Cardinality({x \in Runs : keyOf(x[1]) = keyOf(r) /\ runs[x[1]][x[2]].pc \in InPass}) <= 1

\* a notification has arrived while a pass was in flight
C1_Witness ==
  \E x \in Runs : runs[x[1]][x[2]].pc \in InPass /\ runs[x[1]][x[2]].absorbed >= 1

\* C2 (as claimed): when an invocation resumes after a pass during which N >= 1
\* notifications arrived, exactly one further pass starts, whatever N is; when
\* none arrived, no further pass starts
C2_OneMorePass ==
  [][\A r \in Repos : \A i \in 1..MaxNotify + 1 :
       resumes(r, i) =>
         IF runs[r][i].absorbed >= 1
         THEN /\ startsPass(r, i)
              /\ runs'[r][i].absorbed = 0
              /\ keyOf(r) \notin pendingRepos'
         ELSE Len(runs'[r]) < Len(runs[r])]_vars

\* C3 (as claimed): a notification that arrives while a pass is in flight
\* starts no pass; the invocation that absorbed it does not end without a
\* further pass, and that pass reads the live branch and the pointer as
\* they are when it starts
C3_PendingIsRechecked ==
  [][\A r \in Repos : \A i \in 1..MaxNotify + 1 :
       /\ (i <= Len(runs[r]) /\ runs[r][i].pc \in InPass /\ nNotify' # nNotify)
            => /\ Len(runs'[r]) = Len(runs[r])
               /\ runs'[r][i] = [runs[r][i] EXCEPT !.absorbed = @ + 1]
               /\ keyOf(r) \in pendingRepos'
       /\ (resumes(r, i) /\ keyOf(r) \in pendingRepos)
            => /\ startsPass(r, i)
               /\ runs'[r][i].newBranch = liveBranch(r)
               /\ runs'[r][i].currentBranch = pointerOf(keyOf(r))]_vars

\* C4: a pass that reads a live branch equal to the pointer ends at once:
\* it writes nothing to the store, calls neither the classifier nor close
\* nor open, and leaves the pointer, the store and the tabs as they were
C4_NoOpPass ==
  [][\A r \in Repos : \A i \in 1..MaxNotify + 1 :
       (startsPass(r, i) /\ liveBranch(r) = pointerOf(keyOf(r)))
         => /\ runs'[r][i].pc = "passDone"
            /\ runs'[r][i].log = <<>>
            /\ store' = store
            /\ currentBranchByRepo' = currentBranchByRepo
            /\ tabGroups' = tabGroups
            /\ activeTextEditor' = activeTextEditor]_vars

\* a pass has found the live branch equal to the pointer, with a store in place
C4_Witness ==
  \E x \in Runs :
    LET f == runs[x[1]][x[2]] IN
    /\ f.pc = "passDone" /\ f.newBranch = f.currentBranch /\ f.log = <<>>
    /\ store # EmptyMap

\* C5: a pass that finds the pointer at a non-empty P and the live branch at
\* another branch N stores under (R, P) exactly the open files and the active
\* file of R as they are when the pass starts, and leaves the entry (R, N) alone
C5_SnapshotUnderPrevious ==
  [][\A r \in Repos : \A i \in 1..MaxNotify + 1 :
       LET P == pointerOf(keyOf(r))
           N == liveBranch(r)
       IN (startsPass(r, i) /\ P # "" /\ N # P)
            => /\ hasEntry(store', keyOf(r), P)
               /\ store'[keyOf(r)][P] =
                    TabState(getOpenFilesForRepo(rootUri[r]), getActiveFileForRepo(rootUri[r]))
               /\ hasEntry(store', keyOf(r), N) = hasEntry(store, keyOf(r), N)
               /\ hasEntry(store, keyOf(r), N)
                    => store'[keyOf(r)][N] = store[keyOf(r)][N]]_vars

\* a snapshot with files and an active file has been stored under the previous
\* branch, and the new branch has an entry of its own
C5_Witness ==
  \E x \in Runs :
    LET f == runs[x[1]][x[2]]
        k == keyOf(x[1])
    IN /\ f.pc = "awaitUpdate" /\ f.currentBranch # ""
       /\ hasEntry(store, k, f.currentBranch)
       /\ Len(store[k][f.currentBranch].files) >= 2
       /\ store[k][f.currentBranch].activeFile # None
       /\ hasEntry(store, k, f.newBranch)

\* C6: a pass whose classifier answered "recent" closes nothing and opens
\* nothing, has persisted the snapshot of the previous branch, and ends with
\* the pointer at the new branch
C6_RecentSkipsReplay ==
  \A x \in Runs :
    LET f == runs[x[1]][x[2]]
        k == keyOf(x[1])
    IN reportedRecent(f) =>
         /\ ~has(f, "close") /\ ~has(f, "open")
         /\ f.pc = "passDone"
         /\ has(f, "update")
         /\ f.currentBranch # "" =>
              /\ hasEntry(store, k, f.currentBranch)
              /\ store[k][f.currentBranch] = f.map[k][f.currentBranch]
         /\ pointerOf(k) = f.newBranch

\* a recent branch was entered while tabs of the repository were open
C6_Witness ==
  \E x \in Runs :
    LET f == runs[x[1]][x[2]] IN
    /\ reportedRecent(f) /\ f.pc = "passDone" /\ f.currentBranch # ""
    /\ getTabsForRepo(rootUri[x[1]]) # <<>>
    /\ filesOf(f.map, keyOf(x[1]), f.newBranch) # <<>>

\* C7 (as claimed): when the write of the persisted map fails, the pass is
\* rejected and the pointer is at the new branch all the same
C7_PointerSetOnStoreFailure ==
  \A x \in Runs :
    LET f == runs[x[1]][x[2]] IN
    f.pc = "passFailed" => pointerOf(keyOf(x[1])) = f.newBranch

\* C8 (as claimed): when the reflog query fails or its output is malformed,
\* the pass closes no tab and opens no file
C8_ClassifierFailureSkipsReplay ==
  \A x \in Runs :
    LET f == runs[x[1]][x[2]] IN
    f.hist \in {"error", "malformed"} =>
      /\ f.pc \notin {"awaitClose", "awaitOpen"}
      /\ ~has(f, "close") /\ ~has(f, "open")

\* C9: once an open has failed, the pass still goes through the saved list:
\* the files attempted so far are the saved files in order, the pass does not
\* throw, and it ends with every saved file attempted and the pointer at the
\* new branch
C9_OpenFailureSkipsOneFile ==
  \A x \in Runs :
    LET f == runs[x[1]][x[2]]
        k == keyOf(x[1])
        saved == filesOf(f.map, k, f.newBranch)
    IN (\E n \in 1..Len(did(f, "open")) : ~did(f, "open")[n].ok) =>
         /\ f.pc \in {"awaitOpen", "passDone"}
         /\ f.pc = "awaitOpen" => openedFiles(f) = SubSeq(saved, 1, f.idx - 1)
         /\ f.pc = "passDone" =>
              /\ openedFiles(f) = saved
              /\ f.log[Len(f.log)].op = "setBranch"
              /\ pointerOf(k) = f.newBranch

\* the first open of a replay failed and a later one succeeded
C9_Witness ==
  \E x \in Runs :
    LET f == runs[x[1]][x[2]] IN
    /\ f.pc = "passDone"
    /\ Len(did(f, "open")) >= 2
    /\ ~did(f, "open")[1].ok
    /\ did(f, "open")[2].ok

\* C10: once the close of the tabs has failed, the pass still opens the saved
\* files of the new branch, does not throw, and ends with the pointer at
\* the new branch
C10_CloseFailureGoesOn ==
  \A x \in Runs :
    LET f == runs[x[1]][x[2]]
        k == keyOf(x[1])
    IN (has(f, "close") /\ ~did(f, "close")[1].ok) =>
         /\ f.pc \in {"awaitOpen", "passDone"}
         /\ f.filesToOpen = filesOf(f.map, k, f.newBranch)
         /\ f.pc = "passDone" =>
              /\ openedFiles(f) = f.filesToOpen
              /\ pointerOf(k) = f.newBranch

\* a close failed and the saved files were opened after it
C10_Witness ==
  \E x \in Runs :
    LET f == runs[x[1]][x[2]] IN
    /\ f.pc = "passDone"
    /\ has(f, "close") /\ ~did(f, "close")[1].ok
    /\ Len(did(f, "open")) >= 2
    /\ \A n \in 1..Len(did(f, "open")) : did(f, "open")[n].ok

\* the paths of the open calls made so far by the replay on its own
calledFiles == [n \in 1..Len(probe.calls) |-> probe.calls[n].file]

replayed(f) ==
  /\ f.pc = "passDone"
  /\ f.hist = "ok" /\ has(f, "classify") /\ ~did(f, "classify")[1].ok

\* C13 (as claimed): when the entry stored under (R, N) is a bare list [x, y],
\* a replay of N opens x and then y, as for {files: [x, y], activeFile: null},
\* and raises no error
C13_LegacyListReplayed ==
  \A x \in Runs :
    LET f == runs[x[1]][x[2]]
        k == keyOf(x[1])
    IN (hasEntry(f.map, k, f.newBranch) /\ f.map[k][f.newBranch].legacy
          /\ has(f, "classify") /\ ~did(f, "classify")[1].ok /\ f.hist = "ok")
         => /\ f.pc # "passFailed"
            /\ f.pc = "passDone" => openedFiles(f) = f.map[k][f.newBranch].files

\* C14: a step changes the persisted map only when a pass starts, and a pass
\* for R that finds the pointer at P adds or changes at most the entry (R, P),
\* besides creating an empty inner map for R when R has none: every other
\* entry, legacy entries included, keeps its value, and no entry and no inner
\* map is ever removed
C14_StoreFrame ==
  [][/\ entriesOf(store) \subseteq entriesOf(store')
     /\ DOMAIN store \subseteq DOMAIN store'
     /\ \A e \in entriesOf(store') :
          (e \notin entriesOf(store) \/ store'[e[1]][e[2]] # store[e[1]][e[2]])
            => \E r \in Repos : \E i \in 1..MaxNotify + 1 :
                 /\ startsPass(r, i)
                 /\ e = <<keyOf(r), pointerOf(keyOf(r))>>
     /\ \A k \in DOMAIN store' \ DOMAIN store :
          \E r \in Repos : \E i \in 1..MaxNotify + 1 : startsPass(r, i) /\ k = keyOf(r)]_vars

\* a pass has stored its snapshot next to a legacy entry of the same
\* repository and an entry of another repository
C14_Witness ==
  \E x \in Runs :
    LET f == runs[x[1]][x[2]]
        k == keyOf(x[1])
    IN /\ f.pc = "awaitUpdate" /\ f.currentBranch # ""
       /\ hasEntry(store, k, f.currentBranch)
       /\ \E e \in entriesOf(store) : e[1] = k /\ store[e[1]][e[2]].legacy
       /\ \E e \in entriesOf(store) : e[1] # k

\* the paths of the tabs the host has closed for a pass
closedPaths(f) ==
  UNION {{e.tabs[n].fsPath : n \in 1..Len(e.tabs)} :
           e \in {f.log[j] : j \in {j \in 1..Len(f.log) :
                                      f.log[j].op = "close" /\ f.log[j].ok}}}

\* the paths a pass has asked the host to open
openedPaths(f) == {openedFiles(f)[n] : n \in 1..Len(openedFiles(f))}

\* C15 (as claimed): for any two distinct repositories A and B, a pass for A
\* closes no tab and opens no file whose path is under B's root
C15_OtherRepoUntouched ==
  \A x \in Runs : \A other \in Repos \ {x[1]} :
    LET f == runs[x[1]][x[2]] IN
    \A file \in closedPaths(f) \cup openedPaths(f) : ~isFileInRepo(file, rootUri[other])

\* the pass of f has stored a snapshot under the branch it leaves
wroteSnapshot(f) == has(f, "update") /\ f.currentBranch # ""

\* C16: with passes for two repositories A and B in flight and their awaited
\* steps interleaved, no snapshot is lost or overwritten: the start of a pass
\* for one repository changes nothing under the other repository's key, and
\* the persisted map holds each pass's snapshot under (its repository, the
\* branch it left), while the passes run and after they have returned
C16_NoLostSnapshot ==
  [][/\ \A r \in Repos : \A i \in 1..MaxNotify + 1 :
          startsPass(r, i) =>
            \A k \in DOMAIN store : k # keyOf(r) => (k \in DOMAIN store' /\ store'[k] = store[k])
     /\ \A r \in Repos : \A i \in 1..Len(runs'[r]) :
          LET f == runs'[r][i] IN
          (has(f, "update") /\ f.currentBranch # "") =>
             /\ hasEntry(store', keyOf(r), f.currentBranch)
             /\ store'[keyOf(r)][f.currentBranch] = f.map[keyOf(r)][f.currentBranch]]_vars

\* passes for A and for B are in flight at once, each has stored a snapshot,
\* B's pass started while A's was suspended and A's has gone on since
C16_Witness ==
  /\ \E i \in 1..Len(runs["A"]) : \E j \in 1..Len(runs["B"]) :
       /\ wroteSnapshot(runs["A"][i]) /\ runs["A"][i].pc \in {"awaitClose", "awaitOpen"}
       /\ wroteSnapshot(runs["B"][j]) /\ runs["B"][j].pc \in {"awaitRecent", "awaitClose", "awaitOpen"}
       /\ store[keyOf("A")][runs["A"][i].currentBranch].files # <<>>
       /\ store[keyOf("B")][runs["B"][j].currentBranch].files # <<>>

\* the directory a raw path denotes: its segments once duplicate separators,
\* ".." segments and a trailing separator are resolved
directoryOf(p) == normalizeString(p, <<>>)

\* C17 (as claimed): isFileInRepo is true exactly when the normalized file
\* path equals the normalized root or starts with the normalized root followed
\* by one separator (so a sibling such as /rAx is not under /rA), and the
\* result is the same for inputs that differ only by duplicate separators,
\* ".." segments or a trailing separator on the root
C17_IsUnder ==
  probe.result # None =>
    LET nf == pathNormalize(probe.filePath)
        root == directoryOf(probe.repoRoot)
    IN /\ probe.result[1] <=> (nf = root \/ startsWithSep(nf, root))
       /\ \A r2 \in RawRoots :
            directoryOf(r2) = root => isFileInRepo(probe.filePath, r2) = probe.result[1]
       /\ \A f2 \in RawPaths :
            pathNormalize(f2) = nf => isFileInRepo(f2, probe.repoRoot) = probe.result[1]

\* C18 (as claimed): raw roots that denote the same directory (they differ
\* only in trailing separators, ".." segments or duplicate separators) get
\* the same repository key
C18_OneKeyPerDirectory ==
  probe.key # None =>
    \A r2 \in RawRoots :
      directoryOf(r2) = directoryOf(probe.repoRoot) => normalizeRepoKey(r2) = probe.key[1]

\* every close and every open of the pass has succeeded
allSucceeded(f) ==
  \A n \in 1..Len(f.log) : f.log[n].op \in {"close", "open"} => f.log[n].ok

\* C19 (as claimed): when R comes back to a branch it left earlier in the run,
\* from a branch it had entered by a replay, and the pass replays it, every
\* close and open of both replays succeeding, then the ordered list of R's
\* open files after the replay is the list that was open when the branch was
\* left, and the file in focus is the file that was active then
C19_RoundTrip ==
  \A x \in Runs :
    LET f == runs[x[1]][x[2]]
        k == keyOf(x[1])
    IN (replayed(f) /\ allSucceeded(f) /\ hasEntry(history.left, k, f.newBranch)
          /\ hasKey(history.via, k) /\ history.via[k] = "replay") =>
         LET left == history.left[k][f.newBranch] IN
         /\ getOpenFilesForRepo(rootUri[x[1]]) = left.files
         /\ left.activeFile # None => getActiveFileForRepo(rootUri[x[1]]) = left.activeFile

\* C20: within one pass the steps come in order: the snapshot is stored and
\* its write has settled before any tab is closed, every tab of R is closed
\* before the first saved file is opened, and the pointer is set only after
\* the last open has settled
C20_ReplayOrder ==
  \A x \in Runs :
    LET f == runs[x[1]][x[2]]
        k == keyOf(x[1])
    IN /\ \A i, j \in 1..Len(f.log) :
            /\ (f.log[i].op = "update" /\ f.log[j].op \in {"close", "open", "setBranch"}) => i < j
            /\ (f.log[i].op = "close" /\ f.log[j].op \in {"open", "setBranch"}) => i < j
            /\ (f.log[i].op = "open" /\ f.log[j].op = "setBranch") => i < j
       /\ f.pc = "awaitUpdate" => ~has(f, "close") /\ ~has(f, "open")
       /\ (f.pc \in {"awaitClose", "awaitOpen"} \/ has(f, "close") \/ has(f, "open")) =>
            /\ has(f, "update")
            /\ f.currentBranch # "" => store[k][f.currentBranch] = f.map[k][f.currentBranch]
       /\ (f.pc = "awaitOpen" /\ ~has(f, "open") /\ allSucceeded(f)) =>
            getTabsForRepo(rootUri[x[1]]) = <<>>
       /\ f.pc \in InPass => /\ pointerOf(k) = f.currentBranch
                             /\ ~has(f, "setBranch")
       /\ has(f, "setBranch") => /\ f.pc = "passDone"
                                 /\ has(f, "open") => openedFiles(f) = f.filesToOpen

\* a pass has stored a snapshot, closed tabs, opened two saved files and set
\* the pointer
C20_Witness ==
  \E x \in Runs :
    LET f == runs[x[1]][x[2]] IN
    /\ f.pc = "passDone" /\ f.currentBranch # ""
    /\ has(f, "update")
    /\ has(f, "close") /\ did(f, "close")[1].ok /\ Len(did(f, "close")[1].tabs) >= 2
    /\ Len(did(f, "open")) >= 2
    /\ has(f, "setBranch")
    /\ pointerOf(keyOf(x[1])) = f.newBranch

\* in the step, a change notification is delivered and acts on r: on its
\* invocations or on its guard marks
notified(r) ==
  /\ nNotify' = nNotify + 1
  /\ \/ runs'[r] # runs[r]
     \/ keyOf(r) \in pendingRepos' <=> keyOf(r) \notin pendingRepos
     \/ keyOf(r) \in processingRepos' <=> keyOf(r) \notin processingRepos

\* C21: a notification for R2 that arrives while another repository R1 is
\* processing (whatever R1's pass is waiting for) and R2 is not, starts R2's
\* pass in the same step: R2 is marked processing and not pending, and R1's
\* guard marks and R1's invocations are as they were
C21_OtherRepoStartsAtOnce ==
  [][\A r1 \in Repos : \A r2 \in Repos \ {r1} :
       (/\ notified(r2)
        /\ keyOf(r1) \in processingRepos
        /\ keyOf(r2) \notin processingRepos)
         => /\ startsPass(r2, Len(runs[r2]) + 1)
            /\ keyOf(r2) \in processingRepos'
            /\ keyOf(r2) \notin pendingRepos'
            /\ keyOf(r1) \in processingRepos'
            /\ keyOf(r1) \in pendingRepos' <=> keyOf(r1) \in pendingRepos
            /\ runs'[r1] = runs[r1]]_vars

\* a pass for B has started and gone on while a pass for A, started before
\* it, is still waiting for its first awaited call
C21_Witness ==
  \E i \in 1..Len(runs["A"]) : \E j \in 1..Len(runs["B"]) :
    /\ runs["A"][i].pc = "awaitUpdate"
    /\ runs["B"][j].pc \in {"awaitClose", "awaitOpen", "passDone"}
    /\ has(runs["B"][j], "classify")
    /\ keyOf("B") \notin pendingRepos

\* C22 (as claimed), in its finite form: when every change of R's live branch
\* has been followed by a notification and no invocation for R is left (every
\* awaited call has settled and checkBranchChange has returned), R is not
\* marked processing and its pointer is R's live branch
C22_Converges ==
  \A r \in Watched :
    (nNotify >= 1 /\ runs[r] = <<>>) =>
      /\ keyOf(r) \notin processingRepos
      /\ pointerOf(keyOf(r)) = liveBranch(r)

\* C23 (as claimed): each repository is in exactly one of Idle, Processing,
\* ProcessingWithPending: no repository is marked pending while it is not
\* marked processing, also after a pass has ended with an error
C23_PendingOnlyWhileProcessing == pendingRepos \subseteq processingRepos

\* in the step, the invocation i of r ends because its pass has thrown
endsFailed(r, i) ==
  /\ i <= Len(runs[r])
  /\ runs[r][i].pc = "passFailed"
  /\ runs'[r] = removeAt(runs[r], i)

\* C24: when a pass for R has ended with a failure, R is no longer marked
\* processing, and no other repository's guard marks or pointer change in
\* that step; a notification for R that arrives while R is not marked
\* processing, after a failed pass as at any other time, starts a new pass
\* and is not recorded as pending
C24_FailureContained ==
  [][\A r \in Repos :
       /\ \A i \in 1..MaxNotify + 1 :
            endsFailed(r, i) =>
              /\ keyOf(r) \notin processingRepos'
              /\ \A r2 \in Repos \ {r} :
                   /\ keyOf(r2) \in processingRepos' <=> keyOf(r2) \in processingRepos
                   /\ keyOf(r2) \in pendingRepos' <=> keyOf(r2) \in pendingRepos
                   /\ pointerOf(keyOf(r2))' = pointerOf(keyOf(r2))
       /\ (notified(r) /\ keyOf(r) \notin processingRepos) =>
            /\ startsPass(r, Len(runs[r]) + 1)
            /\ keyOf(r) \in processingRepos'
            /\ keyOf(r) \notin pendingRepos']_vars

\* a pass for A has failed and its invocation has ended, without ever
\* setting the pointer, while a pass for B is in flight
C24_Witness ==
  /\ hasKey(history.left, keyOf("A"))
  /\ ~hasKey(history.entered, keyOf("A"))
  /\ runs["A"] = <<>>
  /\ keyOf("A") \notin processingRepos
  /\ \E j \in 1..Len(runs["B"]) : runs["B"][j].pc \in InPass

\* the path p lies under the directory root
below(p, root) == Len(p) > Len(root) /\ SubSeq(p, 1, Len(root)) = root

\* the place of the first text tab showing p, groups and tabs in display order
firstTab(p) ==
  LET ts == allTabs(tabGroups)
  IN CHOOSE n \in 1..Len(ts) :
       /\ ts[n].tab = TextTab(p)
       /\ \A m \in 1..(n - 1) : ts[m].tab # TextTab(p)

\* C25: getOpenFilesForRepo(repoRoot) returns each path of a text tab under
\* repoRoot exactly once, in the order of first occurrence over the groups
\* and their tabs in display order, and nothing else: no path of a non-text
\* tab, no path outside repoRoot
C25_OpenFilesInTabOrder ==
  probe.done =>
    LET ts == allTabs(tabGroups)
        o == probe.openFiles
    IN /\ \A i \in 1..Len(o) :
            \E n \in 1..Len(ts) : ts[n].tab = TextTab(o[i]) /\ below(o[i], probe.repoRoot)
       /\ \A n \in 1..Len(ts) :
            (ts[n].tab.isText /\ below(ts[n].tab.fsPath, probe.repoRoot))
              => \E i \in 1..Len(o) : o[i] = ts[n].tab.fsPath
       /\ \A i \in 1..Len(o) : \A j \in 1..Len(o) :
            i < j => (o[i] # o[j] /\ firstTab(o[i]) < firstTab(o[j]))

\* the surface read shows a file of the repository in both groups, the second
\* group showing another of its files before it: the file is returned once, at
\* the place of its first tab
C25_Witness ==
  /\ probe.done
  /\ probe.openFiles = <<fA1, fA2>>
  /\ Len(tabGroups[1].tabs) >= 1 /\ tabGroups[1].tabs[Len(tabGroups[1].tabs)] = TextTab(fA1)
  /\ Len(tabGroups[2].tabs) = 2
  /\ tabGroups[2].tabs[1] = TextTab(fA2)
  /\ tabGroups[2].tabs[2] = TextTab(fA1)

\* C26: getActiveFileForRepo(repoRoot) returns the active text editor's path
\* when it lies under repoRoot; otherwise the path of the active tab of the
\* active group when that tab is a text tab under repoRoot; otherwise nothing.
\* What it returns lies under repoRoot
C26_ActiveFileOfRepo ==
  probe.done =>
    LET grp == tabGroups[activeTabGroup]
        editorIn == activeTextEditor # None /\ below(activeTextEditor[1], probe.repoRoot)
        tabIn == /\ grp.activeTab # 0
                 /\ grp.tabs[grp.activeTab].isText
                 /\ below(grp.tabs[grp.activeTab].fsPath, probe.repoRoot)
    IN /\ editorIn => probe.activeFile = activeTextEditor
       /\ (~editorIn /\ tabIn) => probe.activeFile = Some(grp.tabs[grp.activeTab].fsPath)
       /\ (~editorIn /\ ~tabIn) => probe.activeFile = None
       /\ probe.activeFile # None => below(probe.activeFile[1], probe.repoRoot)

\* the active editor shows a file of another repository and the active tab of
\* the active group a file of this one: the tab's path was returned
C26_Witness ==
  /\ probe.done
  /\ probe.repoRoot = rootUri["A"]
  /\ activeTextEditor = Some(fB1)
  /\ tabGroups[activeTabGroup].activeTab # 0
  /\ probe.activeFile = Some(fA2)
  /\ tabGroups[activeTabGroup].tabs[tabGroups[activeTabGroup].activeTab] = TextTab(fA2)

\* the open calls a pass has made: the file and the preserveFocus option of each
openCallsOf(f) ==
  [n \in 1..Len(did(f, "open")) |->
     [file |-> did(f, "open")[n].file, preserveFocus |-> did(f, "open")[n].preserveFocus]]

\* the open calls of a replay of files with the focus on focusFile
callsFocusing(files, focusFile) ==
  [n \in 1..Len(files) |-> [file |-> files[n], preserveFocus |-> Some(files[n]) # focusFile]]

\* C28 (as claimed): a replay of a saved state whose activeFile is present and
\* not among its files makes the open calls, with the focus options, of a
\* replay of {files, activeFile: null}, and opens no path that is not in files
C28_StaleActiveFileIgnored ==
  \A x \in Runs :
    LET f == runs[x[1]][x[2]]
        k == keyOf(x[1])
    IN (replayed(f) /\ hasEntry(f.map, k, f.newBranch)) =>
         LET saved == f.map[k][f.newBranch]
             stale == /\ saved.activeFile # None
                      /\ \A n \in 1..Len(saved.files) : Some(saved.files[n]) # saved.activeFile
         IN stale =>
              /\ openCallsOf(f) = callsFocusing(saved.files, focusFileOf(None, saved.files))
              /\ \A file \in openedPaths(f) : \E n \in 1..Len(saved.files) : saved.files[n] = file

\* the open calls of a pass that were made without focus suppression
focusedCalls(f) == {n \in 1..Len(openCallsOf(f)) : ~openCallsOf(f)[n].preserveFocus}

\* C27 (as claimed): in a replay the focus target is the saved activeFile when
\* present, else the first saved file, else none; with activeFile null and
\* files non-empty the first file is opened without focus suppression; and
\* whenever files is non-empty exactly one open call lacks focus suppression
C27_FocusTarget ==
  \A x \in Runs :
    LET f == runs[x[1]][x[2]]
        k == keyOf(x[1])
    IN (replayed(f) /\ hasEntry(f.map, k, f.newBranch)) =>
         LET saved == f.map[k][f.newBranch]
         IN /\ f.focusFile = IF saved.activeFile # None THEN saved.activeFile
                             ELSE IF saved.files # <<>> THEN Some(saved.files[1])
                             ELSE None
            /\ (saved.activeFile = None /\ saved.files # <<>>) =>
                 openCallsOf(f)[1] = [file |-> saved.files[1], preserveFocus |-> FALSE]
            /\ saved.files # <<>> => Cardinality(focusedCalls(f)) = 1

\* C29: a replay makes at most one close call; the call is made while R has
\* open tabs and is handed all of them as one batch; a replay that finds no
\* open tab of R makes no close call
C29_OneBatchClose ==
  \A x \in Runs :
    LET f == runs[x[1]][x[2]]
        root == rootUri[x[1]]
    IN /\ Len(did(f, "close")) <= 1
       /\ f.pc = "awaitClose" =>
            /\ ~has(f, "close")
            /\ f.tabsToClose # <<>>
            /\ f.tabsToClose = getTabsForRepo(root)
       /\ has(f, "close") =>
            /\ did(f, "close")[1].tabs = f.tabsToClose
            /\ f.tabsToClose # <<>>
       /\ (f.pc = "awaitOpen" /\ ~has(f, "open") /\ ~has(f, "close")) =>
            getTabsForRepo(root) = <<>>

\* a replay has closed, in one call, tabs of the repository that stood in two
\* tab groups
C29_Witness ==
  \E x \in Runs :
    LET f == runs[x[1]][x[2]] IN
    /\ replayed(f)
    /\ Len(did(f, "close")) = 1
    /\ did(f, "close")[1].ok
    /\ \E m, n \in 1..Len(did(f, "close")[1].tabs) :
         did(f, "close")[1].tabs[m].group # did(f, "close")[1].tabs[n].group

\* C30: a pass to an established branch N with nothing saved under (R, N)
\* is replayed as the empty state: the tabs of R are handed to close, so that
\* none is left when the close succeeds, no file is opened, and the pointer
\* is set to N
C30_AbsentStateReplayed ==
  \A x \in Runs :
    LET f == runs[x[1]][x[2]]
        k == keyOf(x[1])
    IN (replayed(f) /\ ~hasEntry(f.map, k, f.newBranch)) =>
         /\ ~has(f, "open")
         /\ allSucceeded(f) => getTabsForRepo(rootUri[x[1]]) = <<>>
         /\ Len(did(f, "setBranch")) = 1
         /\ did(f, "setBranch")[1].branch = f.newBranch
         /\ pointerOf(k) = f.newBranch

\* a pass to an established branch without a saved entry has closed the tabs
\* of the repository, opened nothing and set the pointer
C30_Witness ==
  \E x \in Runs :
    LET f == runs[x[1]][x[2]]
        k == keyOf(x[1])
    IN /\ replayed(f) /\ ~hasEntry(f.map, k, f.newBranch)
       /\ has(f, "close") /\ did(f, "close")[1].ok
       /\ Len(did(f, "close")[1].tabs) >= 2
       /\ getTabsForRepo(rootUri[x[1]]) = <<>>
       /\ pointerOf(k) = f.newBranch

\* the persisted map m once the inner map of repoKey has been initialised
withRepoKey(m, repoKey) == IF hasKey(m, repoKey) THEN m ELSE putKey(m, repoKey, EmptyMap)

\* C31: a pass that finds the pointer of R unset stores no state under any
\* branch of R (the persisted map is still the one the session started with,
\* but for R's inner map being initialised); it still asks the classifier,
\* and when the branch is not recent it closes R's tabs and opens the files
\* saved for the live branch, in order; it ends by setting the pointer to the
\* live branch
C31_UnsetPointer ==
  \A x \in Runs :
    LET f == runs[x[1]][x[2]]
        k == keyOf(x[1])
    IN (f.currentBranch = "" /\ f.pc # "start") =>
         /\ f.pc # "passDone" \/ has(f, "setBranch")
         /\ \E m \in InitStores : store = withRepoKey(m, k) /\ f.map = store
         /\ f.pc \in {"awaitClose", "awaitOpen", "passDone"} => has(f, "classify")
         /\ f.pc = "passDone" =>
              /\ did(f, "setBranch")[1].branch = f.newBranch
              /\ pointerOf(k) = f.newBranch
         /\ (replayed(f) /\ ~(hasEntry(f.map, k, f.newBranch) /\ f.map[k][f.newBranch].legacy)) =>
              /\ openedFiles(f) = IF hasEntry(f.map, k, f.newBranch)
                                  THEN f.map[k][f.newBranch].files ELSE <<>>
              /\ allSucceeded(f) =>
                   getOpenFilesForRepo(rootUri[x[1]]) = openedFiles(f)
         /\ (f.pc = "passDone" /\ reportedRecent(f)) => ~has(f, "close") /\ ~has(f, "open")

\* a pass that found the pointer unset has replayed a saved state of two files
\* and set the pointer
C31_Witness ==
  \E x \in Runs :
    LET f == runs[x[1]][x[2]]
        k == keyOf(x[1])
    IN /\ f.currentBranch = "" /\ replayed(f)
       /\ Len(openedFiles(f)) = 2
       /\ has(f, "close")
       /\ pointerOf(k) = f.newBranch
       /\ ~hasEntry(store, k, "")

\* the path p is the directory root or lies under it
inDirectory(p, root) == p = root \/ below(p, root)

\* C32: every path in files and every activeFile of an entry stored under the
\* key of R is under R's root, from the empty store as from a store left by
\* an earlier session, and so is every file a pass for R asks to open
C32_StoredPathsUnderRoot ==
  /\ \A e \in entriesOf(store) : \A r \in Repos :
       keyOf(r) = e[1] =>
         LET entry == store[e[1]][e[2]] IN
         /\ \A n \in 1..Len(entry.files) : inDirectory(entry.files[n], rootUri[r])
         /\ entry.activeFile # None => inDirectory(entry.activeFile[1], rootUri[r])
  /\ \A e \in entriesOf(store) : \E r \in Repos : keyOf(r) = e[1]
  /\ \A x \in Runs : \A file \in openedPaths(runs[x[1]][x[2]]) :
       inDirectory(file, rootUri[x[1]])

\* starting from the empty store, passes have stored snapshots under two
\* branches of the repository, one of them holding files and an active file
\* while tabs of another repository were open, and a pass has opened a file
C32_Witness ==
  /\ hasKey(history.left, keyOf("A"))
  /\ \E b1, b2 \in DOMAIN history.left[keyOf("A")] : b1 # b2
  /\ \A e \in entriesOf(store) : hasEntry(history.left, e[1], e[2])
  /\ \E e \in entriesOf(store) :
       /\ Len(store[e[1]][e[2]].files) >= 2
       /\ store[e[1]][e[2]].activeFile # None
  /\ \E x \in Runs : has(runs[x[1]][x[2]], "open")

\* the files sequence holds no path twice
noDuplicates(files) == \A i, j \in 1..Len(files) : files[i] = files[j] => i = j

\* the path is an element of the files sequence
isElement(file, files) == \E n \in 1..Len(files) : files[n] = file

\* C33 (as claimed): the state {files, activeFile} a pass writes, whatever the
\* editor surface at snapshot time, has files without duplicates and an
\* activeFile that is null or an element of files
C33_SnapshotWellFormed ==
  probe.done =>
    /\ noDuplicates(probe.openFiles)
    /\ probe.activeFile # None => isElement(probe.activeFile[1], probe.openFiles)

\* C33 (amended): the state a pass writes has files without duplicates and an
\* activeFile that is null or a path under the root; the activeFile is an
\* element of files unless it is the document of the active text editor and
\* no text tab of any group shows that document
C33_SnapshotAmended ==
  probe.done =>
    /\ noDuplicates(probe.openFiles)
    /\ probe.activeFile # None =>
         /\ inDirectory(probe.activeFile[1], probe.repoRoot)
         /\ \/ isElement(probe.activeFile[1], probe.openFiles)
            \/ /\ activeTextEditor = probe.activeFile
               /\ \A n \in 1..Len(allTabs(tabGroups)) :
                    allTabs(tabGroups)[n].tab # TextTab(probe.activeFile[1])

\* the active editor shows a file of the repository that no text tab shows,
\* next to text tabs of the repository: the file was stored as activeFile
\* and is not in files
C33_Witness ==
  /\ probe.done
  /\ probe.openFiles = <<fA1>>
  /\ probe.activeFile = Some(fA2)
  /\ tabGroups[activeTabGroup].activeTab # 0
  /\ tabGroups[activeTabGroup].tabs[tabGroups[activeTabGroup].activeTab] = TextTab(fA1)

\* the replay of the pass f has begun: the classifier has answered, not recent
replayBegun(f) ==
  /\ f.pc \in {"awaitClose", "awaitOpen", "passDone"}
  /\ has(f, "classify") /\ ~reportedRecent(f)

\* C34: the state a pass replays for (R, N) comes from the map the pass
\* loaded before its persist and classifier steps, and whatever passes of
\* other repositories did during those steps, it is the value persisted
\* under (R, N) when the replay begins and while it runs: the entry is there
\* in both or in neither, with equal value, and the files to open are its files
C34_ReplayedStateIsPersisted ==
  \A x \in Runs :
    LET f == runs[x[1]][x[2]]
        k == keyOf(x[1])
    IN replayBegun(f) =>
         /\ hasEntry(store, k, f.newBranch) <=> hasEntry(f.map, k, f.newBranch)
         /\ hasEntry(store, k, f.newBranch) =>
              store[k][f.newBranch] = f.map[k][f.newBranch]
         /\ f.pc = "awaitOpen" =>
              /\ f.filesToOpen = filesOf(store, k, f.newBranch)
              /\ f.focusFile = focusFileOf(activeFileOf(store, k, f.newBranch), f.filesToOpen)

\* the replay of a pass for A opens the files saved for its branch while the
\* persisted map holds a snapshot that a pass for B stored after A's pass
\* had loaded the map
C34_Witness ==
  \E i \in 1..Len(runs["A"]) : \E j \in 1..Len(runs["B"]) :
    LET f == runs["A"][i]
        g == runs["B"][j]
    IN /\ f.pc = "awaitOpen" /\ replayBegun(f)
       /\ f.filesToOpen # <<>>
       /\ wroteSnapshot(g)
       /\ hasEntry(store, keyOf("B"), g.currentBranch)
       /\ ~hasEntry(f.map, keyOf("B"), g.currentBranch)

====
